---------------------------- MODULE Spec2Model ----------------------------
(***************************************************************************)
(* A model of the dithering engine of the dithers crate: the nearest-colour *)
(* mapper of palette.rs and the dispatcher, the error-diffusion engine and  *)
(* the ordered (Bayer) engine of dither.rs.                                 *)
(*                                                                          *)
(* One behaviour is a caller that owns an RGB buffer and calls dither on it *)
(* (and then perhaps again on the result).  A call is modelled pixel by     *)
(* pixel: one action is one iteration of the `for cy / for cx` loops, with  *)
(* everything that iteration does (the mapper call, the store of the chosen *)
(* colour, the whole kernel loop).  An out-of-range index ends the call in  *)
(* pc = "panic", as Rust's bounds checks do.                                *)
(*                                                                          *)
(* Numbers.  Channels are u8.  The mapper's f32 distances are sums of three *)
(* squares of integers below 256, so they are exact and modelled as         *)
(* integers.  Kernel weights and thresholds are written in the source as    *)
(* quotients k/d; they are kept as (numerator, denominator) and the f32     *)
(* expressions are evaluated exactly, with the places where IEEE-754 single *)
(* precision gives another result than exact arithmetic stated explicitly   *)
(* (F32ProductShort, F32ThresholdShort).  The u32 index arithmetic          *)
(* (cy * width + cx) * 3 cannot overflow within the bounds of the model.    *)
(***************************************************************************)
EXTENDS Integers, Sequences, FiniteSets, TLC

VARIABLES
  buffer,         \* the caller's pixel buffer: a sequence of u8 samples
  input,          \* the buffer as it was when the current call of dither began
  dither_type,    \* the DitherMethod passed to dither
  color_palette,  \* the ColorPalette passed to dither
  width,          \* the width passed to dither
  height,         \* the height passed to dither
  pc,             \* "call": about to call dither; "scan": inside the pixel loops;
                  \* "done": dither returned; "panic": dither panicked
  cx,             \* the loop variable cx of the running engine
  cy,             \* the loop variable cy of the running engine
  calls,          \* how many times dither has been called on this buffer
  mapped,         \* the last call of map_to_palette: its argument and its results
  visited         \* the pixels (from 0, in raster order) the current call has processed

vars ==
  <<buffer, input, dither_type, color_palette, width, height, pc, cx, cy, calls, mapped, visited>>

(***************************************************************************)
(* Bounds of the model.                                                     *)
(***************************************************************************)
MaxWidth == 3
MaxHeight == 3
MaxCalls == 2
MaxParallelPixels == 4

(***************************************************************************)
(* palette.rs: colours, palettes, the nearest-colour mapper.                *)
(***************************************************************************)
ColorPalette == {"Monochrome", "COLOR8", "COLOR16"}

PALETTE_16C ==
  << <<0, 0, 0>>,       <<157, 157, 157>>, <<255, 255, 255>>, <<190, 38, 51>>,
     <<224, 111, 139>>, <<73, 60, 43>>,    <<164, 100, 34>>,  <<235, 137, 49>>,
     <<247, 226, 107>>, <<47, 72, 78>>,    <<68, 137, 26>>,   <<163, 206, 39>>,
     <<27, 38, 50>>,    <<0, 87, 132>>,    <<49, 162, 242>>,  <<178, 220, 239>> >>

PALETTE_8C ==
  << <<0, 0, 0>>,     <<204, 53, 0>>,    <<94, 200, 9>>,    <<29, 40, 111>>,
     <<0, 196, 255>>, <<142, 142, 142>>, <<255, 224, 82>>,  <<255, 255, 255>> >>

PALETTE_MONOCHROME == << <<0, 0, 0>>, <<255, 255, 255>> >>

\* f32::INFINITY, the initial running minimum of the mapper: no distance is below it
INFINITY == -1

\* (orig.r - c.r).powi(2) + (orig.g - c.g).powi(2) + (orig.b - c.b).powi(2)
Distance(orig_color, c) ==
  (orig_color[1] - c[1]) * (orig_color[1] - c[1])
  + (orig_color[2] - c[2]) * (orig_color[2] - c[2])
  + (orig_color[3] - c[3]) * (orig_color[3] - c[3])

\* a mapper whose comparison is <=: a later entry at the same distance wins
CloserOrEqual(distance, min_distance) ==
  min_distance = INFINITY \/ distance <= min_distance

\* a mapper whose comparison is inverted: the farthest entry wins
Farther(distance, min_distance) ==
  min_distance = INFINITY \/ distance > min_distance

\* `if distance < min_distance`
Closer(distance, min_distance) ==
  min_distance = INFINITY \/ distance < min_distance

\* the `for c in palette` loop from entry k (1-based) on, with the running
\* best entry `color` (an index) and the running minimum
RECURSIVE Scan(_, _, _, _, _)
Scan(orig_color, palette, k, color, min_distance) ==
  IF k > Len(palette) THEN color
  ELSE LET distance == Distance(orig_color, palette[k])
       IN IF Closer(distance, min_distance)
          THEN Scan(orig_color, palette, k + 1, k, distance)
          ELSE Scan(orig_color, palette, k + 1, color, min_distance)

\* an error measured against black instead of the chosen colour
QuantizationErrorFromBlack(orig_color, c) == orig_color

\* an error that is chosen minus original
QuantizationErrorReversed(orig_color, c) ==
  <<c[1] - orig_color[1], c[2] - orig_color[2], c[3] - orig_color[3]>>

\* the QuantizationError the mapper builds: original minus chosen, per channel
QuantizationError(orig_color, c) ==
  <<orig_color[1] - c[1], orig_color[2] - c[2], orig_color[3] - c[3]>>

\* map_to_palette: idx is the entry the returned reference points to (1-based)
map_to_palette(orig_color, palette) ==
  LET idx == Scan(orig_color, palette, 1, 1, INFINITY)
  IN [orig |-> orig_color, idx |-> idx, color |-> palette[idx],
      qe |-> QuantizationError(orig_color, palette[idx])]

(***************************************************************************)
(* dither.rs: methods, kernels, threshold matrices.                         *)
(***************************************************************************)
DitherMethod ==
  {"None", "FloydSteinberg", "Simple2D", "Jarvis", "Atkinson", "Stucki", "Burkes",
   "Sierra", "TwoRowSierra", "SierraLite", "Bayer2x2", "Bayer4x4", "Bayer8x8"}

\* A table of f32 quotients n/den is kept as its numerators and the denominator.
FLOYD_STEINBERG == [num |-> <<0, 0, 7, 3, 5, 1>>, den |-> 16]

\* a Jarvis table filled with the numerators of the Stucki table
JARVIS_StuckiNumerators ==
  [num |-> <<0, 0, 0, 8, 4, 2, 4, 8, 4, 2, 1, 2, 4, 2, 1>>, den |-> 48]

JARVIS == [num |-> <<0, 0, 0, 7, 5, 3, 5, 7, 5, 3, 1, 3, 5, 3, 1>>, den |-> 48]

SIMPLE2D == [num |-> <<0, 1, 1, 0>>, den |-> 2]

ATKINSON == [num |-> <<0, 0, 1, 1, 1, 1, 1, 0, 0, 1, 0, 0>>, den |-> 8]

STUCKI == [num |-> <<0, 0, 0, 8, 4, 2, 4, 8, 4, 2, 1, 2, 4, 2, 1>>, den |-> 42]

BURKES == [num |-> <<0, 0, 0, 8, 4, 2, 4, 8, 4, 2>>, den |-> 32]

SIERRA == [num |-> <<0, 0, 0, 5, 3, 2, 4, 5, 4, 2, 0, 2, 3, 2, 0>>, den |-> 32]

TWOROWSIERRA == [num |-> <<0, 0, 0, 4, 3, 1, 2, 3, 2, 1>>, den |-> 16]

SIERRALITE == [num |-> <<0, 0, 2, 1, 1, 0>>, den |-> 4]

BAYER2X2 == [num |-> <<0, 2, 3, 1>>, den |-> 4]

\* the 4x4 table read column by column
BAYER4X4_Transposed ==
  [num |-> <<0, 12, 3, 15, 8, 4, 11, 7, 2, 14, 1, 13, 10, 6, 9, 5>>, den |-> 16]

BAYER4X4 ==
  [num |-> <<0, 8, 2, 10, 12, 4, 14, 6, 3, 11, 1, 9, 15, 7, 13, 5>>, den |-> 16]

BAYER8X8 ==
  [num |-> << 0, 32,  8, 40,  2, 34, 10, 42,
             48, 16, 56, 24, 50, 18, 58, 26,
             12, 44,  4, 36, 14, 46,  6, 38,
             60, 28, 52, 20, 62, 30, 54, 22,
              3, 35, 11, 43,  1, 33,  9, 41,
             51, 19, 59, 27, 49, 17, 57, 25,
             15, 47,  7, 39, 13, 45,  5, 37,
             63, 31, 55, 23, 61, 29, 53, 21>>, den |-> 64]

\* the palette slice the dispatcher resolves the selector to
PaletteOf(cp) ==
  CASE cp = "Monochrome" -> PALETTE_MONOCHROME
    [] cp = "COLOR8" -> PALETTE_8C
    [] cp = "COLOR16" -> PALETTE_16C

\* the (kernel, kernel_width, kernel_height, kernel_x_offset) match of
\* apply_error_diffusion; kernel_width = 0 stands for the `_ => return` arm
KernelOf(method) ==
  CASE method = "FloydSteinberg" ->
         [kernel |-> FLOYD_STEINBERG, kernel_width |-> 3, kernel_height |-> 2, kernel_x_offset |-> 1]
    [] method = "Simple2D" ->
         [kernel |-> SIMPLE2D, kernel_width |-> 2, kernel_height |-> 2, kernel_x_offset |-> 0]
    [] method = "Jarvis" ->
         [kernel |-> JARVIS, kernel_width |-> 5, kernel_height |-> 3, kernel_x_offset |-> 2]
    [] method = "Atkinson" ->
         [kernel |-> ATKINSON, kernel_width |-> 4, kernel_height |-> 3, kernel_x_offset |-> 1]
    [] method = "Stucki" ->
         [kernel |-> STUCKI, kernel_width |-> 5, kernel_height |-> 3, kernel_x_offset |-> 2]
    [] method = "Burkes" ->
         [kernel |-> BURKES, kernel_width |-> 5, kernel_height |-> 2, kernel_x_offset |-> 2]
    [] method = "Sierra" ->
         [kernel |-> SIERRA, kernel_width |-> 5, kernel_height |-> 3, kernel_x_offset |-> 2]
    [] method = "TwoRowSierra" ->
         [kernel |-> TWOROWSIERRA, kernel_width |-> 5, kernel_height |-> 2, kernel_x_offset |-> 2]
    [] method = "SierraLite" ->
         [kernel |-> SIERRALITE, kernel_width |-> 3, kernel_height |-> 2, kernel_x_offset |-> 1]
    [] OTHER ->
         [kernel |-> [num |-> <<>>, den |-> 1], kernel_width |-> 0, kernel_height |-> 0, kernel_x_offset |-> 0]

\* the (matrix, matrix_size) match of apply_bayer_dithering; matrix_size = 0
\* stands for the `_ => return` arm
MatrixOf(method) ==
  CASE method = "Bayer2x2" -> [matrix |-> BAYER2X2, matrix_size |-> 2]
    [] method = "Bayer4x4" -> [matrix |-> BAYER4X4, matrix_size |-> 4]
    [] method = "Bayer8x8" -> [matrix |-> BAYER8X8, matrix_size |-> 8]
    [] OTHER -> [matrix |-> [num |-> <<>>, den |-> 1], matrix_size |-> 0]

\* a dispatch whose Bayer arm misses Bayer8x8
EngineBayer8x8Diffused(method) ==
  CASE method = "None" -> "quantize"
    [] method \in {"Bayer2x2", "Bayer4x4"} -> "bayer"
    [] OTHER -> "diffusion"

\* the arm of dither's `match dither_type` a method takes
Engine(method) ==
  CASE method = "None" -> "quantize"
    [] method \in {"Bayer2x2", "Bayer4x4", "Bayer8x8"} -> "bayer"
    [] OTHER -> "diffusion"

(***************************************************************************)
(* Buffer access.  Indices are the source's 0-based indices.                *)
(***************************************************************************)
\* Color::from(&buffer[i..i + 3]); the slice panics unless i + 3 <= len
InRange(buf, i) == i >= 0 /\ i + 3 <= Len(buf)

ColorFrom(buf, i) == <<buf[i + 1], buf[i + 2], buf[i + 3]>>

\* buffer[i] = c.r; buffer[i + 1] = c.g; buffer[i + 2] = c.b
StorePixel(buf, i, c) ==
  [buf EXCEPT ![i + 1] = c[1], ![i + 2] = c[2], ![i + 3] = c[3]]

\* ((cy * width + cx) * 3) as usize
PixelIndex(x, y, w) == (y * w + x) * 3

(***************************************************************************)
(* Error diffusion.                                                         *)
(***************************************************************************)
\* qe * kernel[ki] in f32 falls short of the exact product k/den * e far enough
\* to change the rounded sum in one case only, among all weights of the nine
\* kernels, all errors in -255..255 and all samples in 0..255:
\* 216.0 * (7.0 / 48.0) = 31.499998 in f32, where the exact product is 31.5.
F32ProductShort(v, e, num, den) == v = 0 /\ e = 216 /\ num = 7 /\ den = 48

\* (v + e * num/den).round(): f32::round rounds half away from zero
RoundSum(v, e, num, den) ==
  LET n == v * den + e * num
      exact == IF n >= 0 THEN (2 * n + den) \div (2 * den)
                         ELSE -((den - 2 * n) \div (2 * den))
  IN IF F32ProductShort(v, e, num, den) THEN exact - 1 ELSE exact

\* .clamp(0.0, 255.0) as u8
ClampU8(x) == IF x < 0 THEN 0 ELSE IF x > 255 THEN 255 ELSE x

\* a write that wraps modulo 256 instead of clamping
DiffuseSampleWrapping(v, e, num, den) == RoundSum(v, e, num, den) % 256

\* (f32::from(buffer[ni]) + (qe.r * kernel[ki])).round().clamp(0.0, 255.0) as u8
DiffuseSample(v, e, num, den) == ClampU8(RoundSum(v, e, num, den))

\* the three statements that add the error to the pixel at ni, each of which
\* indexes the buffer on its own: ch is the channel (0, 1, 2) to do next
RECURSIVE AddError(_, _, _, _, _, _)
AddError(buf, ni, qe, num, den, ch) ==
  IF ch = 3 THEN [buffer |-> buf, ok |-> TRUE]
  ELSE IF ni + ch < 0 \/ ni + ch >= Len(buf) THEN [buffer |-> buf, ok |-> FALSE]
  ELSE AddError([buf EXCEPT ![ni + ch + 1] = DiffuseSample(buf[ni + ch + 1], qe[ch + 1], num, den)],
                ni, qe, num, den, ch + 1)

\* a kernel applied mirrored: nx = cx - kx + kernel_x_offset
TargetXMirrored(x, kx, kernel_x_offset) == x - kx + kernel_x_offset

\* let nx = cx as isize + kx as isize - kernel_x_offset as isize
TargetX(x, kx, kernel_x_offset) == x + kx - kernel_x_offset

\* a kernel applied upwards: ny = cy - ky
TargetYUp(y, ky) == y - ky

\* let ny = cy as isize + ky as isize
TargetY(y, ky) == y + ky

\* a range check that forgets the lower edge of the image
OffImageNoBottom(nx, ny, w, h) == nx < 0 \/ nx >= w \/ ny < 0

\* a range check that forgets the right edge: a target at nx = width lands
\* on the first pixel of the next row
OffImageNoRight(nx, ny, w, h) == nx < 0 \/ ny < 0 \/ ny >= h

\* if nx < 0 || nx >= width as isize || ny < 0 || ny >= height as isize
OffImage(nx, ny, w, h) == nx < 0 \/ nx >= w \/ ny < 0 \/ ny >= h

\* the `for ky / for kx` loops from cell n = ky * kernel_width + kx on
RECURSIVE Spread(_, _, _, _, _, _, _, _)
Spread(buf, K, qe, w, h, x, y, n) ==
  IF n >= K.kernel_width * K.kernel_height THEN [buffer |-> buf, ok |-> TRUE]
  ELSE LET ky == n \div K.kernel_width
           kx == n % K.kernel_width
           ki == ky * K.kernel_width + kx
       IN IF ki >= Len(K.kernel.num) THEN [buffer |-> buf, ok |-> FALSE]
          ELSE LET weight == K.kernel.num[ki + 1]
                   nx == TargetX(x, kx, K.kernel_x_offset)
                   ny == TargetY(y, ky)
               IN IF weight = 0 THEN Spread(buf, K, qe, w, h, x, y, n + 1)
                  ELSE IF nx = x /\ ny = y THEN Spread(buf, K, qe, w, h, x, y, n + 1)
                  ELSE IF OffImage(nx, ny, w, h) THEN Spread(buf, K, qe, w, h, x, y, n + 1)
                  ELSE LET r == AddError(buf, PixelIndex(nx, ny, w), qe, weight, K.kernel.den, 0)
                       IN IF r.ok THEN Spread(r.buffer, K, qe, w, h, x, y, n + 1) ELSE r

\* one iteration of the pixel loops of apply_error_diffusion, at (x, y)
DiffusePixel(buf, method, palette, w, h, x, y) ==
  LET i == PixelIndex(x, y, w)
  IN IF ~InRange(buf, i) THEN [buffer |-> buf, ok |-> FALSE, mapped |-> [idx |-> 0]]
     ELSE LET m == map_to_palette(ColorFrom(buf, i), palette)
              r == Spread(StorePixel(buf, i, m.color), KernelOf(method), m.qe, w, h, x, y, 0)
          IN [buffer |-> r.buffer, ok |-> r.ok, mapped |-> m]

(***************************************************************************)
(* Ordered dithering.                                                       *)
(***************************************************************************)
\* With threshold 0.5 the exact value of (c/255 + 0.5 - 0.5) * 255 is c itself,
\* and the f32 evaluation (c/255 rounded, the sum rounded, the product
\* rounded) lands just below c for these c, so that the cast yields c - 1.
\* For every other threshold k/64 the exact value is at least 1/64 away from
\* an integer and the f32 evaluation truncates to the same sample.
F32ThresholdShort(c, num, den) ==
  /\ 2 * num = den
  /\ c >= 1
  /\ \/ c <= 64
     \/ c <= 128 /\ c % 2 = 0
     \/ c % 4 = 0

\* a threshold step that rounds to nearest instead of truncating
ThresholdSampleRounded(c, num, den) ==
  LET n == 2 * den * c + 255 * (2 * num - den)
  IN IF n <= 0 THEN 0
     ELSE IF n >= 255 * 2 * den THEN 255
     ELSE (n + den) \div (2 * den)

\* ((f32::from(c) / 255.0 + threshold - 0.5).clamp(0.0, 1.0) * 255.0) as u8,
\* with threshold = num/den: the value is n / (2 * den) before the clamp
ThresholdSample(c, num, den) ==
  LET n == 2 * den * c + 255 * (2 * num - den)
  IN IF n <= 0 THEN 0
     ELSE IF n >= 255 * 2 * den THEN 255
     ELSE IF F32ThresholdShort(c, num, den) THEN c - 1
     ELSE n \div (2 * den)

\* one iteration of the pixel loops of apply_bayer_dithering, at (x, y)
BayerPixel(buf, method, palette, w, x, y) ==
  LET i == PixelIndex(x, y, w)
      M == MatrixOf(method)
      matrix_x == x % M.matrix_size
      matrix_y == y % M.matrix_size
      ti == matrix_y * M.matrix_size + matrix_x
  IN IF ti >= Len(M.matrix.num) \/ ~InRange(buf, i)
     THEN [buffer |-> buf, ok |-> FALSE, mapped |-> [idx |-> 0]]
     ELSE LET threshold == M.matrix.num[ti + 1]
              orig == ColorFrom(buf, i)
              color == <<ThresholdSample(orig[1], threshold, M.matrix.den),
                         ThresholdSample(orig[2], threshold, M.matrix.den),
                         ThresholdSample(orig[3], threshold, M.matrix.den)>>
              m == map_to_palette(color, palette)
          IN [buffer |-> StorePixel(buf, i, m.color), ok |-> TRUE, mapped |-> m]

(***************************************************************************)
(* Direct quantization (DitherMethod::None).                                *)
(***************************************************************************)
\* a None arm that also diffuses the error, as the Floyd-Steinberg arm does
QuantizePixelDiffusing(buf, palette, w, x, y) ==
  DiffusePixel(buf, "FloydSteinberg", palette, w, height, x, y)

\* one iteration of the pixel loops of the None arm of dither, at (x, y)
QuantizePixel(buf, palette, w, x, y) ==
  LET i == PixelIndex(x, y, w)
  IN IF ~InRange(buf, i) THEN [buffer |-> buf, ok |-> FALSE, mapped |-> [idx |-> 0]]
     ELSE LET m == map_to_palette(ColorFrom(buf, i), palette)
          IN [buffer |-> StorePixel(buf, i, m.color), ok |-> TRUE, mapped |-> m]

(***************************************************************************)
(* The caller: the buffers and arguments dither is called with.             *)
(***************************************************************************)
\* the colours multi-pixel test images are made of: the greys of the unit
\* tests, their two colour pixels, black and white, colours at equal distance
\* from their two nearest entries of PALETTE_8C and of PALETTE_16C, and a red
\* whose Monochrome error of 216 meets a black neighbour (F32ProductShort)
TestColors ==
  << <<128, 128, 128>>, <<64, 64, 64>>, <<100, 150, 200>>, <<50, 75, 25>>,
     <<201, 147, 41>>, <<255, 255, 255>>, <<216, 0, 0>>, <<0, 0, 0>>,
     <<200, 30, 10>>, <<69, 3, 4>> >>

\* the steps test images take through TestColors from one pixel to the next
Strides == {0, 1, 3}

\* the n-pixel buffer whose pixel p (from 0) is test colour seed + p * stride
Image(seed, stride, n) ==
  [j \in 1..(3 * n) |->
     TestColors[((seed + ((j - 1) \div 3) * stride) % Len(TestColors)) + 1][((j - 1) % 3) + 1]]

\* the entries of a palette, as a set
Entries(palette) == {palette[k] : k \in 1..Len(palette)}

\* the colours of one-pixel images: every palette entry, the test colours, a
\* grid over the colour cube, and greys around the middle of the range
WideColors ==
  Entries(PALETTE_MONOCHROME) \cup Entries(PALETTE_8C) \cup Entries(PALETTE_16C)
  \cup Entries(TestColors)
  \cup {<<r, g, b>> : r \in {0, 127, 255}, g \in {0, 128, 255}, b \in {0, 130, 255}}
  \cup {<<v, v, v>> : v \in {1, 126, 127, 129, 132, 254}}

NoMap == [orig |-> <<0, 0, 0>>, idx |-> 0, color |-> <<0, 0, 0>>, qe |-> <<0, 0, 0>>]

\* width * height * 3 == buffer.len(), with at least one pixel
WellFormed(buf, w, h) == w >= 1 /\ h >= 1 /\ Len(buf) = w * h * 3

Init ==
  /\ dither_type \in DitherMethod
  /\ color_palette \in ColorPalette
  /\ \/ /\ width \in 1..MaxWidth
        /\ height \in 1..MaxHeight
        /\ \E seed \in 0..(Len(TestColors) - 1), stride \in Strides :
             buffer = Image(seed, stride, width * height)
     \/ /\ width = 1
        /\ height = 1
        /\ \E c \in WideColors : buffer = c
     \/ /\ width \in 0..MaxWidth
        /\ height \in 0..MaxHeight
        /\ \E n \in 0..(MaxWidth * MaxHeight + 1), cut \in 0..2 :
             /\ cut <= 3 * n
             /\ buffer = SubSeq(Image(0, 1, n), 1, 3 * n - cut)
        /\ ~WellFormed(buffer, width, height)
  /\ input = buffer
  /\ pc = "call"
  /\ cx = 0
  /\ cy = 0
  /\ calls = 0
  /\ mapped = NoMap
  /\ visited = {}

\* the loop variables after the iteration at (cx, cy)
NextX == IF cx + 1 < width THEN cx + 1 ELSE 0

NextY == IF cx + 1 < width THEN cy ELSE cy + 1

\* what an iteration leaves: its buffer, the position of the next one, or the
\* end of the call (the loops are exhausted, or an index was out of range)
Advance(r) ==
  /\ buffer' = r.buffer
  /\ mapped' = IF r.mapped.idx = 0 THEN mapped ELSE r.mapped
  /\ pc' = IF ~r.ok THEN "panic" ELSE IF NextY >= height THEN "done" ELSE "scan"
  /\ cx' = IF r.ok THEN NextX ELSE cx
  /\ cy' = IF r.ok THEN NextY ELSE cy
  /\ visited' = IF r.ok THEN visited \cup {cy * width + cx} ELSE visited
  /\ UNCHANGED <<input, dither_type, color_palette, width, height, calls>>

\* the caller calls dither(&mut buffer, dither_type, color_palette, width,
\* height): the palette and the engine are resolved and the loops are entered,
\* unless they are empty or the engine's own match falls through
Dither ==
  /\ pc \in {"call", "done"}
  /\ calls < MaxCalls
  /\ calls' = calls + 1
  /\ input' = buffer
  /\ cx' = 0
  /\ cy' = 0
  /\ visited' = {}
  /\ pc' = IF \/ height = 0
              \/ width = 0
              \/ Engine(dither_type) = "diffusion" /\ KernelOf(dither_type).kernel_width = 0
              \/ Engine(dither_type) = "bayer" /\ MatrixOf(dither_type).matrix_size = 0
           THEN "done" ELSE "scan"
  /\ UNCHANGED <<buffer, dither_type, color_palette, width, height, mapped>>

\* one iteration of the None arm
QuantizeStep ==
  /\ pc = "scan"
  /\ Engine(dither_type) = "quantize"
  /\ Advance(QuantizePixel(buffer, PaletteOf(color_palette), width, cx, cy))

\* one iteration of apply_bayer_dithering
BayerStep ==
  /\ pc = "scan"
  /\ Engine(dither_type) = "bayer"
  /\ Advance(BayerPixel(buffer, dither_type, PaletteOf(color_palette), width, cx, cy))

\* one iteration of apply_error_diffusion
DiffusionStep ==
  /\ pc = "scan"
  /\ Engine(dither_type) = "diffusion"
  /\ Advance(DiffusePixel(buffer, dither_type, PaletteOf(color_palette), width, height, cx, cy))

Next == Dither \/ QuantizeStep \/ BayerStep \/ DiffusionStep

Spec == Init /\ [][Next]_vars

(***************************************************************************)
(* The pixel loops of the None arm and of apply_bayer_dithering with their  *)
(* iterations taken in any order, one at a time.                            *)
(***************************************************************************)
\* the whole `for cy / for cx` scan of the None arm or of
\* apply_bayer_dithering, in the code's order, from pixel p on
RECURSIVE RasterScan(_, _, _, _, _, _)
RasterScan(buf, method, palette, w, h, p) ==
  IF p >= w * h THEN buf
  ELSE LET r == IF Engine(method) = "quantize"
                THEN QuantizePixel(buf, palette, w, p % w, p \div w)
                ELSE BayerPixel(buf, method, palette, w, p % w, p \div w)
       IN IF r.ok THEN RasterScan(r.buffer, method, palette, w, h, p + 1) ELSE r.buffer

InitAnyOrder ==
  /\ dither_type \in {"None", "Bayer2x2", "Bayer4x4", "Bayer8x8"}
  /\ color_palette \in ColorPalette
  /\ width \in 1..MaxWidth
  /\ height \in 1..MaxHeight
  /\ width * height <= MaxParallelPixels
  /\ \E seed \in 0..(Len(TestColors) - 1), stride \in Strides :
       buffer = Image(seed, stride, width * height)
  /\ input = buffer
  /\ pc = "call"
  /\ cx = 0
  /\ cy = 0
  /\ calls = 0
  /\ mapped = NoMap
  /\ visited = {}

\* what the iteration for pixel p leaves; the call ends with the last pixel
AdvanceAt(r, p) ==
  /\ buffer' = r.buffer
  /\ mapped' = IF r.mapped.idx = 0 THEN mapped ELSE r.mapped
  /\ visited' = IF r.ok THEN visited \cup {p} ELSE visited
  /\ pc' = IF ~r.ok THEN "panic"
           ELSE IF visited \cup {p} = 0..(width * height - 1) THEN "done" ELSE "scan"
  /\ UNCHANGED <<input, dither_type, color_palette, width, height, calls, cx, cy>>

\* the iteration of the None arm for any pixel still to do
QuantizeAnyStep ==
  /\ pc = "scan"
  /\ Engine(dither_type) = "quantize"
  /\ \E p \in (0..(width * height - 1)) \ visited :
       AdvanceAt(QuantizePixel(buffer, PaletteOf(color_palette), width, p % width, p \div width), p)

\* the iteration of apply_bayer_dithering for any pixel still to do
BayerAnyStep ==
  /\ pc = "scan"
  /\ Engine(dither_type) = "bayer"
  /\ \E p \in (0..(width * height - 1)) \ visited :
       AdvanceAt(BayerPixel(buffer, dither_type, PaletteOf(color_palette), width,
                            p % width, p \div width), p)

NextAnyOrder == Dither \/ QuantizeAnyStep \/ BayerAnyStep

SpecAnyOrder == InitAnyOrder /\ [][NextAnyOrder]_vars

(***************************************************************************)
(* Properties.                                                              *)
(***************************************************************************)
\* the current call was given a buffer of width * height * 3 samples, with at
\* least one pixel
Valid == WellFormed(input, width, height)

\* the methods of the error-diffusion engine
Diffusion == DitherMethod \ {"None", "Bayer2x2", "Bayer4x4", "Bayer8x8"}

\* the pixel p (from 0, in raster order) of a buffer
PixelAt(buf, p) == ColorFrom(buf, 3 * p)

\* how many pixels the current call has processed
Processed == IF pc = "done" THEN width * height ELSE cy * width + cx

\* C1: when dither returns, for any method and palette and a buffer of
\* width * height * 3 samples (width, height >= 1), every pixel of the buffer
\* is an entry of the selected palette; with Monochrome every pixel is black
\* or white.
C1_OutputInPalette ==
  (pc = "done" /\ Valid) =>
    \A p \in 0..(width * height - 1) :
      /\ PixelAt(buffer, p) \in Entries(PaletteOf(color_palette))
      /\ color_palette = "Monochrome" =>
           PixelAt(buffer, p) \in {<<0, 0, 0>>, <<255, 255, 255>>}

C1_Witness ==
  /\ pc = "done" /\ Valid /\ calls = 1
  /\ dither_type = "Jarvis" /\ color_palette = "COLOR8"
  /\ width = 3 /\ height = 3
  /\ \E p \in 0..8 : PixelAt(input, p) \notin Entries(PALETTE_8C)

\* C2: map_to_palette returns the entry at minimal squared distance from the
\* colour, and among the entries at that distance the one of lowest index.
C2_NearestLowestIndex ==
  mapped.idx # 0 =>
    LET palette == PaletteOf(color_palette)
        d == Distance(mapped.orig, palette[mapped.idx])
    IN /\ mapped.idx \in 1..Len(palette)
       /\ mapped.color = palette[mapped.idx]
       /\ \A j \in 1..Len(palette) : Distance(mapped.orig, palette[j]) >= d
       /\ \A j \in 1..(mapped.idx - 1) : Distance(mapped.orig, palette[j]) > d

\* the mapper was given a colour with two nearest entries
C2_Witness ==
  /\ mapped.idx # 0
  /\ \E j \in (mapped.idx + 1)..Len(PaletteOf(color_palette)) :
       Distance(mapped.orig, PaletteOf(color_palette)[j])
         = Distance(mapped.orig, PaletteOf(color_palette)[mapped.idx])

\* C3: the error map_to_palette returns is, per channel, the original minus
\* the chosen entry; a colour that is entry i of the palette is mapped to
\* entry i with the error (0, 0, 0).
C3_ErrorIsOrigMinusChosen ==
  mapped.idx # 0 =>
    LET palette == PaletteOf(color_palette)
    IN /\ \A ch \in 1..3 : mapped.qe[ch] = mapped.orig[ch] - mapped.color[ch]
       /\ \A i \in 1..Len(palette) :
            mapped.orig = palette[i] =>
              mapped.idx = i /\ mapped.color = palette[i] /\ mapped.qe = <<0, 0, 0>>

\* the mapper was given the last entry of the 16-colour palette
C3_Witness ==
  /\ color_palette = "COLOR16"
  /\ mapped.idx = 16
  /\ mapped.orig = PALETTE_16C[16]

\* C4: on a buffer whose length is not width * height * 3, or with a zero
\* width or height, dither fails, and fails before it has modified the buffer.
C4_FailsBeforeProcessing ==
  (calls >= 1 /\ ~Valid) => (pc = "panic" /\ buffer = input)

\* C5: on a well-formed call no index is out of range (the call does not
\* panic), neither in the buffer nor in a kernel or threshold table, and the
\* buffer keeps its length.
C5_NoPanicSameLength ==
  Valid => (pc # "panic" /\ Len(buffer) = Len(input))

C5_Witness ==
  /\ pc = "done" /\ Valid /\ calls = 1
  /\ dither_type = "Stucki" /\ width = 2 /\ height = 1

\* the sum of a sequence of numbers
RECURSIVE SumSeq(_)
SumSeq(q) == IF q = <<>> THEN 0 ELSE Head(q) + SumSeq(Tail(q))

\* C6 as stated: every weight of each of the nine kernels is non-negative and
\* the weights of each kernel sum to 1.
C6_WeightsSumToOne ==
  dither_type \in Diffusion =>
    LET kernel == KernelOf(dither_type).kernel
    IN /\ \A k \in 1..Len(kernel.num) : kernel.num[k] >= 0 /\ kernel.den > 0
       /\ SumSeq(kernel.num) = kernel.den

\* C6 amended: every weight of each of the nine kernels is non-negative; the
\* weights sum to 1 for the eight kernels other than Atkinson, and to 3/4 for
\* Atkinson.
C6_WeightsSumToOneButAtkinson ==
  dither_type \in Diffusion =>
    LET kernel == KernelOf(dither_type).kernel
    IN /\ \A k \in 1..Len(kernel.num) : kernel.num[k] >= 0 /\ kernel.den > 0
       /\ dither_type # "Atkinson" => SumSeq(kernel.num) = kernel.den
       /\ dither_type = "Atkinson" => 4 * SumSeq(kernel.num) = 3 * kernel.den

\* a call with the Atkinson kernel has diffused an error
C6_Witness ==
  /\ dither_type = "Atkinson" /\ Valid /\ pc = "done" /\ calls = 1
  /\ width >= 2
  /\ mapped.qe # <<0, 0, 0>>

\* C7: a second call of dither with method None (same palette, same
\* dimensions) returns the buffer the first call returned.
C7_NoneIdempotent ==
  (dither_type = "None" /\ Valid /\ calls >= 2 /\ pc = "done") => buffer = input

\* a second None call has returned, on an image of several pixels
C7_Witness ==
  /\ dither_type = "None" /\ Valid /\ calls = 2 /\ pc = "done"
  /\ width * height >= 2
  /\ color_palette = "COLOR16"

\* C8: with method None every pixel processed so far is map_to_palette of the
\* input pixel at its position and every other pixel is still the input pixel;
\* the 2x1 image (128,128,128),(64,64,64) gives (255,255,255),(0,0,0) with the
\* Monochrome palette.
C8_NoneMapsEachPixel ==
  (dither_type = "None" /\ Valid /\ pc \in {"scan", "done"}) =>
    /\ \A p \in 0..(width * height - 1) :
         PixelAt(buffer, p) =
           IF p < Processed
           THEN map_to_palette(PixelAt(input, p), PaletteOf(color_palette)).color
           ELSE PixelAt(input, p)
    /\ ( /\ pc = "done" /\ width = 2 /\ height = 1
         /\ color_palette = "Monochrome"
         /\ input = <<128, 128, 128, 64, 64, 64>> )
       => buffer = <<255, 255, 255, 0, 0, 0>>

C8_Witness ==
  /\ dither_type = "None" /\ pc = "done" /\ calls = 1
  /\ width = 2 /\ height = 1 /\ color_palette = "Monochrome"
  /\ input = <<128, 128, 128, 64, 64, 64>>
  /\ buffer = <<255, 255, 255, 0, 0, 0>>

\* C10: an iteration of apply_error_diffusion at (cx, cy) leaves every pixel
\* before (cx, cy) in raster order as it was, and leaves at (cx, cy) exactly
\* the colour the mapper chose (the pixel receives none of its own error);
\* so a quantized pixel is never modified again in the call.
C10_WritesOnlyLaterPixels ==
  [][ (pc = "scan" /\ dither_type \in Diffusion /\ Valid) =>
        /\ \A j \in 1..(3 * (cy * width + cx)) : buffer'[j] = buffer[j]
        /\ PixelAt(buffer', cy * width + cx) =
             map_to_palette(PixelAt(buffer, cy * width + cx), PaletteOf(color_palette)).color
    ]_vars

\* an error has been diffused into a pixel that is still to be processed, on
\* an image wide and high enough for every cell of the 5x3 kernels
C10_Witness ==
  /\ pc = "scan" /\ dither_type = "Sierra" /\ Valid /\ calls = 1
  /\ width = 3 /\ height = 3
  /\ cx = 2 /\ cy = 1
  /\ \E p \in 6..8 : PixelAt(buffer, p) # PixelAt(input, p)

\* the pixels (from 0, in raster order) of a w x h image that a non-zero
\* cell of a method's kernel, laid at (x, y), covers
CoveredPixels(method, x, y, w, h) ==
  LET K == KernelOf(method)
  IN {p \in 0..(w * h - 1) :
        \E ky \in 0..(K.kernel_height - 1), kx \in 0..(K.kernel_width - 1) :
          /\ K.kernel.num[ky * K.kernel_width + kx + 1] # 0
          /\ p % w = x + kx - K.kernel_x_offset
          /\ p \div w = y + ky}

\* C11: an iteration of apply_error_diffusion at (cx, cy) changes no pixel
\* but (cx, cy) and the pixels inside the image that a non-zero kernel cell
\* covers: a cell whose target is off the image writes nothing, neither beyond
\* the buffer nor, wrapped, on a pixel of the next or previous row.
C11_OffImageCellsDropped ==
  [][ (pc = "scan" /\ dither_type \in Diffusion /\ Valid) =>
        /\ pc' # "panic"
        /\ Len(buffer') = Len(buffer)
        /\ \A p \in 0..(width * height - 1) :
             (p # cy * width + cx
                /\ p \notin CoveredPixels(dither_type, cx, cy, width, height))
             => PixelAt(buffer', p) = PixelAt(buffer, p)
    ]_vars

\* the right-most pixel of a row of a 3x2 image was processed with an error
\* to diffuse: the Floyd-Steinberg cell to its right is off the image
C11_Witness ==
  /\ pc = "scan" /\ dither_type = "FloydSteinberg" /\ Valid /\ calls = 1
  /\ width = 3 /\ height = 2
  /\ cx = 0 /\ cy = 1
  /\ mapped.qe # <<0, 0, 0>>

\* C12: every sample an iteration of apply_error_diffusion writes into a
\* covered pixel is the 8-bit sample that was in the buffer plus error times
\* weight, rounded to a nearest integer and clamped to 0..255 (never wrapped).
C12_RoundedClampedSum ==
  [][ (pc = "scan" /\ dither_type \in Diffusion /\ Valid) =>
        LET K == KernelOf(dither_type)
        IN \A ky \in 0..(K.kernel_height - 1), kx \in 0..(K.kernel_width - 1) :
             LET num == K.kernel.num[ky * K.kernel_width + kx + 1]
                 nx == cx + kx - K.kernel_x_offset
                 ny == cy + ky
             IN (num # 0 /\ nx \in 0..(width - 1) /\ ny \in 0..(height - 1)) =>
                  \A ch \in 1..3 :
                    LET j == 3 * (ny * width + nx) + ch
                        s == buffer[j] * K.kernel.den + mapped'.qe[ch] * num
                        r == buffer'[j]
                    IN /\ r \in 0..255
                       /\ r = 0 \/ 2 * (r * K.kernel.den - s) <= K.kernel.den
                       /\ r = 255 \/ 2 * (s - r * K.kernel.den) <= K.kernel.den
    ]_vars

\* the Jarvis weight 7/48 of the error 216 was added to a sample 0, where
\* single precision stores 31 for the exact sum 31.5
C12_Witness ==
  /\ pc = "scan" /\ dither_type = "Jarvis" /\ color_palette = "Monochrome"
  /\ Valid /\ calls = 1 /\ width = 2 /\ cx = 1 /\ cy = 0
  /\ mapped.qe = <<216, 0, 0>>
  /\ PixelAt(input, 1) = <<0, 0, 0>>
  /\ PixelAt(buffer, 1) = <<31, 0, 0>>

\* C13: for method None and the three Bayer methods, with the pixel
\* iterations taken one at a time in any order, every pixel done so far holds
\* what the raster-order scan of the input leaves there and every other pixel
\* still holds its input; so the final buffer is that of the raster-order scan.
C13_AnyOrderSameResult ==
  (pc \in {"scan", "done"} /\ Valid) =>
    LET raster == RasterScan(input, dither_type, PaletteOf(color_palette), width, height, 0)
    IN /\ \A p \in 0..(width * height - 1) :
            PixelAt(buffer, p) = IF p \in visited THEN PixelAt(raster, p) ELSE PixelAt(input, p)
       /\ pc = "done" => buffer = raster

\* the last pixel of a row and the last pixel of the image were done first
C13_Witness ==
  /\ pc = "scan" /\ dither_type = "Bayer2x2" /\ color_palette = "COLOR8"
  /\ width = 2 /\ height = 2 /\ calls = 1
  /\ visited = {1, 3}
  /\ PixelAt(buffer, 3) # PixelAt(input, 3)

BayerMethods == {"Bayer2x2", "Bayer4x4", "Bayer8x8"}

\* t is trunc(clamp(c/255 + num/den - 0.5, 0, 1) * 255); at a threshold of
\* exactly 1/2 the single-precision sum c/255 + 0.5 - 0.5 may fall just under
\* c/255, so the truncation is c or c - 1
IsThresholded(t, c, num, den) ==
  LET n == 2 * den * c + 255 * (2 * num - den)
  IN IF n <= 0 THEN t = 0
     ELSE IF n >= 255 * 2 * den THEN t = 255
     ELSE IF 2 * num = den THEN t \in {c - 1, c}
     ELSE t * 2 * den <= n /\ n < (t + 1) * 2 * den

BayerFrom(B, n) ==
  [k \in 1..(4 * n * n) |->
     LET r == (k - 1) \div (2 * n)
         c == (k - 1) % (2 * n)
         inner == B[(r % n) * n + (c % n) + 1]
         add == IF r < n THEN (IF c < n THEN 0 ELSE 2) ELSE (IF c < n THEN 3 ELSE 1)
     IN 4 * inner + add]

\* C15: the threshold matrix of each Bayer method has N*N entries (N = 2, 4,
\* 8), each in [0, 1), and is built from the next smaller one (from [0] for
\* N = 2) as the blocks [[4B, 4B+2], [4B+3, 4B+1]] over 4, 16 and 64.
C15_BayerRecursion ==
  dither_type \in BayerMethods =>
    LET M == MatrixOf(dither_type)
        N == CASE dither_type = "Bayer2x2" -> 2
               [] dither_type = "Bayer4x4" -> 4
               [] dither_type = "Bayer8x8" -> 8
        B == CASE dither_type = "Bayer2x2" -> <<0>>
               [] dither_type = "Bayer4x4" -> BAYER2X2.num
               [] dither_type = "Bayer8x8" -> BAYER4X4.num
    IN /\ M.matrix_size = N
       /\ Len(M.matrix.num) = N * N
       /\ M.matrix.den = N * N
       /\ \A k \in 1..Len(M.matrix.num) :
            M.matrix.num[k] >= 0 /\ M.matrix.num[k] < M.matrix.den
       /\ M.matrix.num = BayerFrom(B, N \div 2)

\* a call with the largest matrix, every tile position of the image used
C15_Witness ==
  /\ dither_type = "Bayer8x8" /\ pc = "done" /\ Valid
  /\ width = MaxWidth /\ height = MaxHeight

\* the kernels as the specification lists them: rows of numerators over a
\* common denominator, the dimensions and the x offset
ListedKernel(method) ==
  CASE method = "FloydSteinberg" ->
         [rows |-> <<<<0, 0, 7>>, <<3, 5, 1>>>>, den |-> 16, w |-> 3, h |-> 2, off |-> 1]
    [] method = "Simple2D" ->
         [rows |-> <<<<0, 1>>, <<1, 0>>>>, den |-> 2, w |-> 2, h |-> 2, off |-> 0]
    [] method = "Jarvis" ->
         [rows |-> <<<<0, 0, 0, 7, 5>>, <<3, 5, 7, 5, 3>>, <<1, 3, 5, 3, 1>>>>,
          den |-> 48, w |-> 5, h |-> 3, off |-> 2]
    [] method = "Atkinson" ->
         [rows |-> <<<<0, 0, 1, 1>>, <<1, 1, 1, 0>>, <<0, 1, 0, 0>>>>,
          den |-> 8, w |-> 4, h |-> 3, off |-> 1]
    [] method = "Stucki" ->
         [rows |-> <<<<0, 0, 0, 8, 4>>, <<2, 4, 8, 4, 2>>, <<1, 2, 4, 2, 1>>>>,
          den |-> 42, w |-> 5, h |-> 3, off |-> 2]
    [] method = "Burkes" ->
         [rows |-> <<<<0, 0, 0, 8, 4>>, <<2, 4, 8, 4, 2>>>>,
          den |-> 32, w |-> 5, h |-> 2, off |-> 2]
    [] method = "Sierra" ->
         [rows |-> <<<<0, 0, 0, 5, 3>>, <<2, 4, 5, 4, 2>>, <<0, 2, 3, 2, 0>>>>,
          den |-> 32, w |-> 5, h |-> 3, off |-> 2]
    [] method = "TwoRowSierra" ->
         [rows |-> <<<<0, 0, 0, 4, 3>>, <<1, 2, 3, 2, 1>>>>,
          den |-> 16, w |-> 5, h |-> 2, off |-> 2]
    [] method = "SierraLite" ->
         [rows |-> <<<<0, 0, 2>>, <<1, 1, 0>>>>, den |-> 4, w |-> 3, h |-> 2, off |-> 1]

\* C16: dither sends None to direct quantization, the three Bayer methods to
\* apply_bayer_dithering and the other nine to apply_error_diffusion; each of
\* the nine resolves to a table of kernel_width * kernel_height weights with
\* the listed weights, dimensions and offset; and no call through dither takes
\* an engine's early return: when it returns, every pixel has been processed.
C16_DispatchAndKernels ==
  /\ Engine(dither_type) =
       IF dither_type = "None" THEN "quantize"
       ELSE IF dither_type \in {"Bayer2x2", "Bayer4x4", "Bayer8x8"} THEN "bayer"
       ELSE "diffusion"
  /\ Engine(dither_type) = "bayer" => MatrixOf(dither_type).matrix_size # 0
  /\ Engine(dither_type) = "diffusion" =>
       LET K == KernelOf(dither_type)
           L == ListedKernel(dither_type)
       IN /\ K.kernel_width = L.w /\ K.kernel_height = L.h /\ K.kernel_x_offset = L.off
          /\ K.kernel_width # 0
          /\ Len(K.kernel.num) = K.kernel_width * K.kernel_height
          /\ \A ky \in 1..L.h, kx \in 1..L.w :
               K.kernel.num[(ky - 1) * L.w + kx] * L.den = L.rows[ky][kx] * K.kernel.den
  /\ (pc = "done" /\ Valid) => visited = 0..(width * height - 1)

\* a returned Atkinson call on the largest image that changed the buffer
C16_Witness ==
  /\ pc = "done" /\ Valid /\ dither_type = "Atkinson"
  /\ width = MaxWidth /\ height = MaxHeight
  /\ visited = 0..(width * height - 1)
  /\ buffer # input

\* every pixel of a buffer is an entry of the palette
PaletteOnly(buf, palette, n) ==
  \A p \in 0..(n - 1) : \E k \in 1..Len(palette) : PixelAt(buf, p) = palette[k]

\* C17: during and after a call of an error-diffusion method on an image that
\* already consists only of colours of the selected palette, the buffer equals
\* the call's input; so a second call with the same method and palette returns
\* the buffer the first call returned.
C17_DiffusionKeepsPaletteImages ==
  (dither_type \in Diffusion /\ Valid /\ pc \in {"scan", "done"}) =>
    /\ PaletteOnly(input, PaletteOf(color_palette), width * height)
         => /\ buffer = input
            /\ cx + cy > 0 => mapped.qe = <<0, 0, 0>>
    /\ calls >= 2 => buffer = input

\* a second Jarvis call has returned a buffer of more than one colour
C17_Witness ==
  /\ pc = "done" /\ calls = 2 /\ Valid
  /\ dither_type = "Jarvis" /\ color_palette = "COLOR16"
  /\ width = MaxWidth /\ height = MaxHeight
  /\ buffer = input
  /\ \E p, q \in 0..(width * height - 1) : PixelAt(buffer, p) # PixelAt(buffer, q)

====
